---- MODULE Spec2Model ----
(***************************************************************************)
(* Model of bestool's BES link framing layer,                              *)
(* src/bestool/src/beslink/message.rs: message types, BesMessage           *)
(* encode/decode, checksum, frame length lookup, and the two blocking      *)
(* readers read_message and read_message_with_trailing_data.               *)
(***************************************************************************)
EXTENDS Integers, Sequences, FiniteSets, TLC

(***************************************************************************)
(* Bytes and constants                                                     *)
(***************************************************************************)

\* u8
Byte == 0..255

\* crate::beslink::BES_SYNC (0xBE), imported at message.rs:1
BES_SYNC == 190

(***************************************************************************)
(* enum MessageTypes (message.rs:9-20) and its wire codes                  *)
(***************************************************************************)

MessageTypes ==
  { "Sync", "FlashRead", "StartProgrammer", "ProgrammerRunning",
    "ProgrammerStart", "ProgrammerInit", "FlashCommand", "EraseBurnStart",
    "FlashBurnData" }

\* `t as u8`: the discriminants of the enum
AsU8(t) ==
  CASE t = "Sync"              -> 80    \* 0x50
    [] t = "FlashRead"         -> 3     \* 0x03
    [] t = "StartProgrammer"   -> 83    \* 0x53
    [] t = "ProgrammerRunning" -> 84    \* 0x54
    [] t = "ProgrammerStart"   -> 85    \* 0x55
    [] t = "ProgrammerInit"    -> 96    \* 0x60
    [] t = "FlashCommand"      -> 101   \* 0x65
    [] t = "EraseBurnStart"    -> 97    \* 0x61
    [] t = "FlashBurnData"     -> 98    \* 0x62

\* Result<MessageTypes, ()> of try_from
OkType(t) == [ok |-> TRUE, val |-> t]
ErrType == [ok |-> FALSE, val |-> "none"]

\* impl TryFrom<u8> for MessageTypes: the match arms in source order.  There
\* is no arm for MessageTypes::ProgrammerStart.
TryFrom(v) ==
  IF v = AsU8("Sync") THEN OkType("Sync")
  ELSE IF v = AsU8("StartProgrammer") THEN OkType("StartProgrammer")
  ELSE IF v = AsU8("ProgrammerRunning") THEN OkType("ProgrammerRunning")
  ELSE IF v = AsU8("ProgrammerInit") THEN OkType("ProgrammerInit")
  ELSE IF v = AsU8("FlashCommand") THEN OkType("FlashCommand")
  ELSE IF v = AsU8("EraseBurnStart") THEN OkType("EraseBurnStart")
  ELSE IF v = AsU8("FlashBurnData") THEN OkType("FlashBurnData")
  ELSE IF v = AsU8("FlashRead") THEN OkType("FlashRead")
  ELSE ErrType

(***************************************************************************)
(* Checksum                                                                *)
(***************************************************************************)

\* Vec::pop, result discarded: the vector without its last element
Pop(v) == IF Len(v) = 0 THEN v ELSE SubSeq(v, 1, Len(v) - 1)

\* `sum += *b as u32` (message.rs:187).  sum enters each addition below 256,
\* so the u32 addition (at most 255 + 255) cannot wrap.
AddByte(s, b) == s + b

\* A loop body that never truncates the sum.
MaskNothing(s) == s

\* `sum = sum & 0xFF` (message.rs:188)
MaskFF(s) == s % 256

\* A return statement that forgets the complement.
ComplementForgotten(s) == s % 256

\* `(0xFF - sum) as u8` (message.rs:190)
Complement(s) == (255 - s) % 256

\* A checksum loop whose mask is 0x7F instead of 0xFF.
RECURSIVE ChecksumLoopMask7F(_, _, _)
ChecksumLoopMask7F(packet, i, sum) ==
  IF i > Len(packet) THEN sum
  ELSE ChecksumLoopMask7F(packet, i + 1, (sum + packet[i]) % 128)

\* the `for b in packet` loop of calculate_message_checksum from index i on:
\* sum += *b as u32; sum = sum & 0xFF
RECURSIVE ChecksumLoop(_, _, _)
ChecksumLoop(packet, i, sum) ==
  IF i > Len(packet) THEN sum
  ELSE ChecksumLoop(packet, i + 1, MaskFF(AddByte(sum, packet[i])))

\* calculate_message_checksum: (0xFF - sum) as u8
CalculateMessageChecksum(packet) == Complement(ChecksumLoop(packet, 1, 0))

\* BESLinkError::BadChecksumError { failed_packet, got, wanted }
BadChecksumError(failed_packet, got, wanted) ==
  [kind |-> "BadChecksumError", failed_packet |-> failed_packet,
   got |-> got, wanted |-> wanted]

\* Ok(()) of validate_packet_checksum
OkUnit == [kind |-> "Ok"]

\* A verifier that forgets inner_packet.pop(): it sums the received
\* checksum byte too.
ValidateWithoutPop(packet) ==
  LET checksum == CalculateMessageChecksum(packet)
  IN IF checksum = packet[Len(packet)] THEN OkUnit
     ELSE BadChecksumError(packet, packet[Len(packet)], checksum)

\* validate_packet_checksum
ValidatePacketChecksum(packet) ==
  LET inner_packet == Pop(packet)
      checksum == CalculateMessageChecksum(inner_packet)
  IN IF checksum = packet[Len(packet)] THEN OkUnit
     ELSE BadChecksumError(packet, packet[Len(packet)], checksum)

(***************************************************************************)
(* struct BesMessage and its codec                                         *)
(***************************************************************************)

BesMessage(sync, type1, payload, checksum) ==
  [sync |-> sync, type1 |-> type1, payload |-> payload, checksum |-> checksum]

\* BesMessage::to_vec
ToVec(m) == <<m.sync, AsU8(m.type1)>> \o m.payload \o <<m.checksum>>

\* A set_checksum that sums the stale checksum byte too (forgets v.pop()).
SetChecksumNoPop(m) ==
  [m EXCEPT !.checksum = CalculateMessageChecksum(ToVec(m))]

\* BesMessage::set_checksum
SetChecksum(m) ==
  [m EXCEPT !.checksum = CalculateMessageChecksum(Pop(ToVec(m)))]

\* A decoder whose payload slice starts after the type byte (d[2..]).
FromVecPayloadAfterType(d) ==
  LET t == TryFrom(d[2])
  IN BesMessage(d[1],
                IF t.ok THEN t.val ELSE "Sync",
                SubSeq(d, 3, Len(d) - 1),
                d[Len(d)])

\* impl From<Vec<u8>> for BesMessage.  Rust's d[1..d.len() - 1] is the
\* 1-based d[2] .. d[Len(d) - 1]: it starts at the type byte.
FromVec(d) ==
  LET t == TryFrom(d[2])
  IN BesMessage(d[1],
                IF t.ok THEN t.val ELSE "Sync",
                SubSeq(d, 2, Len(d) - 1),
                d[Len(d)])

(***************************************************************************)
(* Frame length lookup                                                     *)
(***************************************************************************)

\* A lookup whose fallback for an unknown type asks for one more byte.
DecodeMessageLengthFallback4(packet) ==
  IF Len(packet) < 3 THEN 3
  ELSE LET t == TryFrom(packet[2])
       IN IF ~t.ok THEN 4
          ELSE CASE t.val = "Sync" -> 8
                 [] t.val = "ProgrammerInit" -> 11
                 [] t.val = "FlashCommand" ->
                      IF packet[3] = 2 THEN 9 ELSE IF packet[3] = 8 THEN 6 ELSE 22
                 [] t.val = "FlashBurnData" -> 8
                 [] OTHER -> 6

\* decode_message_length
DecodeMessageLength(packet) ==
  IF Len(packet) < 3 THEN 3
  ELSE LET packet_id1 == packet[2]
           packet_id2 == packet[3]
           t == TryFrom(packet_id1)
       IN IF t.ok
          THEN CASE t.val = "Sync" -> 8
                 [] t.val = "StartProgrammer" -> 6
                 [] t.val = "ProgrammerRunning" -> 6
                 [] t.val = "ProgrammerInit" -> 11
                 [] t.val = "FlashCommand" ->
                      IF packet_id2 = 2 THEN 9
                      ELSE IF packet_id2 = 8 THEN 6
                      ELSE 22
                 [] t.val = "EraseBurnStart" -> 6
                 [] t.val = "FlashBurnData" -> 8
                 [] t.val = "ProgrammerStart" -> 6
                 [] t.val = "FlashRead" -> 6
          ELSE 3

(***************************************************************************)
(* State                                                                   *)
(***************************************************************************)

VARIABLES
  msg,                \* a BesMessage built by a caller (outbound side)
  summed,             \* TRUE once set_checksum was called on msg
  wire,               \* a byte vector: to_vec's result, or bytes received
  orig,               \* the vector before one bit of it was flipped on the line
  decoded,            \* the BesMessage decoded from wire
  verdict,            \* validate_packet_checksum's result for wire
  length,             \* decode_message_length's result for wire
  noise,              \* the bytes on the line before the device's frame
  frame,              \* the frame the device sends after the noise
  stream,             \* all bytes the serial port will deliver, in order
  pos,                \* how many bytes of stream the port has handed out
  op,                 \* the read function the caller invoked
  expected_data_len,  \* argument of read_message_with_trailing_data
  pc,                 \* position in the reader's code
  packet,             \* read_message's local `packet`
  packet_len,         \* read_message's local `packet_len`
  response,           \* read_message's return value
  trail,              \* read_message_with_trailing_data's local `packet`
  result,             \* the invoked function's return value
  last,               \* outcome of the latest serial_port.read call
  spc,                \* position in calculate_message_checksum's code
  idx,                \* how many bytes of wire its `for` loop has consumed
  acc,                \* its local `sum` (u32)
  cks,                \* its return value: <<>> until it returns, then <<byte>>
  write_result,       \* what serial_port.write_all returned to send_message
  port_out,           \* the bytes the serial port took from send_message
  send_result         \* send_message's return value

codecVars == <<msg, summed, wire, orig, decoded, verdict, length>>
readVars == <<noise, frame, stream, pos, op, expected_data_len, pc, packet, packet_len,
              response, trail, result, last>>
outVars == <<spc, idx, acc, cks, write_result, port_out, send_result>>
vars == <<codecVars, readVars, outVars>>

\* placeholders for "not yet computed"
NoMsg == [sync |-> 0, type1 |-> "none", payload |-> <<>>, checksum |-> 0]
NoResult == [kind |-> "none"]

(***************************************************************************)
(* Inputs                                                                  *)
(***************************************************************************)

\* longest payload a caller builds
MaxPayload == 3

\* payload bytes callers use: FlashCommand subtypes 2 and 8, and 0xFF
PayloadBytes == {2, 8, 255}

\* all sequences over S of length at most n
RECURSIVE SeqsUpTo(_, _)
SeqsUpTo(S, n) ==
  IF n = 0 THEN {<<>>}
  ELSE LET shorter == SeqsUpTo(S, n - 1)
       IN shorter \cup {Append(s, b) : s \in {t \in shorter : Len(t) = n - 1}, b \in S}

Messages ==
  { BesMessage(s, t, p, c) : s \in {BES_SYNC, 0}, t \in MessageTypes,
                             p \in SeqsUpTo(PayloadBytes, MaxPayload),
                             c \in {0, 237} }

\* every 3-byte header (sync, type_byte, next_byte)
Headers == { <<s, t, n>> : s \in {BES_SYNC, 0}, t \in Byte, n \in Byte }

\* longer buffers handed to the decoder: a header with each of the type
\* bytes devices send or 0xFF, followed by up to MaxPayload more bytes
LongBuffers ==
  { <<BES_SYNC, t, 0>> \o p :
      t \in {80, 3, 83, 84, 85, 96, 101, 97, 98, 0, 255},
      p \in SeqsUpTo(PayloadBytes, MaxPayload) \ {<<>>} }

CodecIdle ==
  /\ msg = NoMsg /\ summed = FALSE /\ wire = <<>> /\ orig = <<>>
  /\ decoded = NoMsg /\ verdict = NoResult /\ length = 0

ReadIdle ==
  /\ noise = <<>> /\ frame = <<>> /\ stream = <<>> /\ pos = 0 /\ op = "none" /\ expected_data_len = 0
  /\ pc = "idle" /\ packet = <<>> /\ packet_len = 0 /\ response = NoResult
  /\ trail = <<>> /\ result = NoResult /\ last = "none"

OutIdle ==
  /\ spc = "idle" /\ idx = 0 /\ acc = 0 /\ cks = <<>>
  /\ write_result = "none" /\ port_out = <<>> /\ send_result = NoResult

(***************************************************************************)
(* Codec operations as actions                                             *)
(***************************************************************************)

\* a caller calls msg.set_checksum()
DoSetChecksum ==
  /\ msg # NoMsg /\ ~summed /\ wire = <<>>
  /\ send_result = NoResult          \* msg was not moved into send_message
  /\ msg' = SetChecksum(msg)
  /\ summed' = TRUE
  /\ UNCHANGED <<wire, orig, decoded, verdict, length, readVars, outVars>>

\* a caller calls msg.to_vec()
DoToVec ==
  /\ msg # NoMsg /\ wire = <<>>
  /\ wire' = ToVec(msg)
  /\ UNCHANGED <<msg, summed, orig, decoded, verdict, length, readVars, outVars>>

\* BesMessage::from(wire)
DoFromVec ==
  /\ Len(wire) >= 2 /\ orig = <<>> /\ decoded = NoMsg
  /\ decoded' = FromVec(wire)
  /\ UNCHANGED <<msg, summed, wire, orig, verdict, length, readVars, outVars>>

\* decode_message_length(&wire)
DoDecodeLength ==
  /\ wire # <<>> /\ orig = <<>> /\ length = 0
  /\ length' = DecodeMessageLength(wire)
  /\ UNCHANGED <<msg, summed, wire, orig, decoded, verdict, readVars, outVars>>

\* validate_packet_checksum(&wire)
DoValidate ==
  /\ wire # <<>> /\ verdict = NoResult
  /\ verdict' = ValidatePacketChecksum(wire)
  /\ UNCHANGED <<msg, summed, wire, orig, decoded, length, readVars, outVars>>

\* b with bit k inverted
FlipBitOf(b, k) == IF (b \div (2 ^ k)) % 2 = 1 THEN b - 2 ^ k ELSE b + 2 ^ k

\* the line corrupts one bit of a frame that carries a correct checksum
DoFlipBit ==
  /\ wire # <<>> /\ orig = <<>> /\ verdict = NoResult
  /\ ValidatePacketChecksum(wire) = OkUnit
  /\ \E i \in 1..Len(wire), k \in 0..7 :
       wire' = [wire EXCEPT ![i] = FlipBitOf(wire[i], k)]
  /\ orig' = wire
  /\ UNCHANGED <<msg, summed, decoded, verdict, length, readVars, outVars>>

\* frames of one or two bytes handed to validate_packet_checksum
ShortFrames == SeqsUpTo({0, 1, 254, 255}, 2) \ {<<>>}

InitCodec == /\ \/ msg \in Messages /\ wire = <<>>
                \/ msg = NoMsg /\ wire \in ShortFrames
             /\ summed = FALSE /\ orig = <<>>
             /\ decoded = NoMsg /\ verdict = NoResult /\ length = 0 /\ ReadIdle
             /\ OutIdle

NextCodec ==
  \/ DoSetChecksum
  \/ DoToVec
  \/ DoFromVec
  \/ DoDecodeLength
  \/ DoValidate
  \/ DoFlipBit

SpecCodec == InitCodec /\ [][NextCodec]_vars

InitHeader == msg = NoMsg /\ summed = FALSE
              /\ wire \in Headers \cup LongBuffers /\ orig = <<>>
              /\ decoded = NoMsg /\ verdict = NoResult /\ length = 0 /\ ReadIdle
             /\ OutIdle

NextHeader ==
  \/ DoDecodeLength
  \/ DoFromVec

SpecHeader == InitHeader /\ [][NextHeader]_vars

(***************************************************************************)
(* send_message                                                            *)
(***************************************************************************)

\* Err(e) of send_message: the std::io::Error of write_all
IoError == [kind |-> "IoError"]

\* A send_message that calls set_checksum before encoding.
SendPacketRecomputed(m) == ToVec(SetChecksum(m))

\* `let packet = msg.to_vec()` (message.rs:85)
SendPacket(m) == ToVec(m)

\* the match on write_all's result (message.rs:86-96)
SendReturn(w) == IF w = "Ok" THEN OkUnit ELSE IoError

\* send_message(port, msg) when write_all succeeds: the port took the whole
\* packet, then flush
SendWritten ==
  /\ msg # NoMsg /\ wire = <<>> /\ send_result = NoResult
  /\ write_result' = "Ok"
  /\ port_out' = SendPacket(msg)
  /\ send_result' = SendReturn("Ok")
  /\ UNCHANGED <<codecVars, readVars, spc, idx, acc, cks>>

\* send_message(port, msg) when write_all fails: the port took only some
\* first bytes of the packet
SendWriteFails ==
  /\ msg # NoMsg /\ wire = <<>> /\ send_result = NoResult
  /\ write_result' = "Err"
  /\ \E n \in 0..(Len(SendPacket(msg)) - 1) :
       port_out' = SubSeq(SendPacket(msg), 1, n)
  /\ send_result' = SendReturn("Err")
  /\ UNCHANGED <<codecVars, readVars, spc, idx, acc, cks>>

NextSend ==
  \/ DoSetChecksum
  \/ SendWritten
  \/ SendWriteFails

SpecSend == InitCodec /\ [][NextSend]_vars

(***************************************************************************)
(* calculate_message_checksum, statement by statement                      *)
(***************************************************************************)

\* longest byte sequence, besides the test vectors, that is summed
MaxSumLen == 3

\* bytes of those sequences
SumBytes == {0, 1, BES_SYNC, 255}

\* test_messages of tests::test_calculate_packet_checksum (message.rs:237-261)
TestMessages ==
  { <<190, 80, 0, 3, 0, 0, 1, 237>>,
    <<190, 80, 0, 1, 1, 239>>,
    <<190, 83, 0, 1, 0, 237>>,
    <<190, 101, 2, 1, 17, 200>>,
    <<190, 101, 3, 1, 18, 198>>,
    <<190, 98, 193, 11, 0, 128, 0, 0, 171, 119, 127, 244, 0, 0, 0, 254>>,
    <<190, 98, 194, 11, 0, 128, 0, 0, 52, 144, 97, 249, 1, 0, 0, 115>>,
    <<190, 97, 7, 12, 0, 0, 0, 60, 0, 0, 13, 0, 0, 128, 0, 0, 4>>,
    <<190, 3, 6, 8, 0, 240, 15, 60, 0, 16, 0, 0, 229>>,
    <<190, 3, 5, 8, 0, 224, 15, 60, 0, 16, 0, 0, 246>> }

\* the vectors the test passes to calculate_message_checksum (v.pop() first)
TestInputs == {Pop(v) : v \in TestMessages}

\* byte sequences handed to calculate_message_checksum; BE 50 00 01 is the
\* second test vector without its fifth byte
SumInputs ==
  SeqsUpTo(SumBytes, MaxSumLen) \cup TestInputs \cup {<<190, 80, 0, 1>>}

\* `sum += *b as u32` for the next byte of the packet
SumAdd ==
  /\ spc = "add" /\ idx < Len(wire)
  /\ acc' = AddByte(acc, wire[idx + 1])
  /\ spc' = "mask"
  /\ UNCHANGED <<codecVars, readVars, idx, cks, write_result, port_out,
                 send_result>>

\* `sum = sum & 0xFF`, end of the loop body
SumMask ==
  /\ spc = "mask"
  /\ acc' = MaskFF(acc)
  /\ idx' = idx + 1
  /\ spc' = "add"
  /\ UNCHANGED <<codecVars, readVars, cks, write_result, port_out, send_result>>

\* the loop is over: `return (0xFF - sum) as u8`
SumReturn ==
  /\ spc = "add" /\ idx = Len(wire)
  /\ cks' = <<Complement(acc)>>
  /\ spc' = "done"
  /\ UNCHANGED <<codecVars, readVars, idx, acc, write_result, port_out,
                 send_result>>

InitSum ==
  /\ msg = NoMsg /\ summed = FALSE /\ wire \in SumInputs /\ orig = <<>>
  /\ decoded = NoMsg /\ verdict = NoResult /\ length = 0
  /\ ReadIdle
  /\ spc = "add" /\ idx = 0 /\ acc = 0 /\ cks = <<>>
  /\ write_result = "none" /\ port_out = <<>> /\ send_result = NoResult

NextSum ==
  \/ SumAdd
  \/ SumMask
  \/ SumReturn

SpecSum == InitSum /\ [][NextSum]_vars

(***************************************************************************)
(* read_message and read_message_with_trailing_data                        *)
(***************************************************************************)

\* Ok(BesMessage) of read_message
OkMessage(m) == [kind |-> "Ok", msg |-> m]

\* Ok((BesMessage, Vec<u8>)) of read_message_with_trailing_data
OkWithData(m, data) == [kind |-> "Ok", msg |-> m, data |-> data]

\* Err(BESLinkError::from(e)) for a non-timeout I/O error
TransportError == [kind |-> "TransportError"]

\* Err(BESLinkError::InvalidArgs)
InvalidArgs == [kind |-> "InvalidArgs"]

\* A loop condition that asks for one byte more than the expected length.
LoopCondInclusive(pkt, plen) == Len(pkt) <= plen

\* `while packet.len() < packet_len` (message.rs:138)
LoopCond(pkt, plen) == Len(pkt) < plen

\* A loop body that appends every byte, without hunting for the sync byte.
AcceptEveryByte(pkt, b) == Append(pkt, b)

\* A loop body that starts the packet over at every sync byte.
AcceptRestartsOnSync(pkt, b) ==
  IF b = BES_SYNC THEN <<b>>
  ELSE IF Len(pkt) = 0 THEN pkt
  ELSE Append(pkt, b)

\* message.rs:143-145: the byte is pushed unless the packet is empty and the
\* byte is not the sync byte
Accept(pkt, b) ==
  IF ~(Len(pkt) = 0 /\ b # BES_SYNC) THEN Append(pkt, b) ELSE pkt

\* the Ok(n) arm (message.rs:140-147); b is buffer[0]
OnReadOk(pkt, n, b) == IF n = 1 THEN Accept(pkt, b) ELSE pkt

\* A timeout arm that drops what was accumulated so far.
OnTimedOutClear(pkt) == <<>>

\* the Err(e) arm with e.kind() == TimedOut (message.rs:148-153): nothing is
\* done, the packet is as it was
OnTimedOut(pkt) == pkt

\* message.rs:155-159: the length lookup at the end of each loop iteration
LengthCheck(pkt, plen) ==
  IF Len(pkt) = 3 /\ plen = 3 THEN DecodeMessageLength(pkt) ELSE plen

\* message.rs:164-167: the value read_message returns for a complete packet
ReadMessageReturn(pkt) ==
  LET v == ValidatePacketChecksum(pkt)
  IN IF v = OkUnit THEN OkMessage(FromVec(pkt)) ELSE v

\* A guard that lets every response through.
TypeGuardOff(r) == FALSE

\* message.rs:106: `response.type1 != MessageTypes::FlashRead`
TypeGuardFails(r) == r.type1 # "FlashRead"

\* `while packet.len() < expected_data_len` (message.rs:113)
BulkCond(data, expected) == Len(data) < expected

\* size of the read buffer of the bulk loop (crate::beslink::FLASH_BUFFER_SIZE,
\* imported at message.rs:1); the model uses a small buffer
FLASH_BUFFER_SIZE == 2

Min(a, b) == IF a < b THEN a ELSE b

\* one iteration of read_message's loop in which the port returns Ok(1)
ReadByte ==
  /\ pc = "read_loop" /\ LoopCond(packet, packet_len)
  /\ pos < Len(stream)
  /\ LET pkt == OnReadOk(packet, 1, stream[pos + 1])
     IN /\ packet' = pkt
        /\ packet_len' = LengthCheck(pkt, packet_len)
  /\ pos' = pos + 1
  /\ last' = "byte"
  /\ UNCHANGED <<codecVars, outVars, noise, frame, stream, op, expected_data_len, pc,
                 response, trail, result>>

\* one iteration in which the port returns Ok(0)
ReadZero ==
  /\ pc = "read_loop" /\ LoopCond(packet, packet_len)
  /\ LET pkt == OnReadOk(packet, 0, 0)
     IN /\ packet' = pkt
        /\ packet_len' = LengthCheck(pkt, packet_len)
  /\ last' = "zero"
  /\ UNCHANGED <<codecVars, outVars, noise, frame, stream, pos, op, expected_data_len,
                 pc, response, trail, result>>

\* A timeout arm without the `e.kind() != TimedOut` test: every Err aborts.
ReadTimedOutAborts ==
  /\ pc = "read_loop" /\ LoopCond(packet, packet_len)
  /\ response' = TransportError
  /\ result' = TransportError
  /\ pc' = "done"
  /\ last' = "timeout"
  /\ UNCHANGED <<codecVars, outVars, noise, frame, stream, pos, op,
                 expected_data_len, packet, packet_len, trail>>

\* one iteration in which the port returns Err(TimedOut)
ReadTimedOut ==
  /\ pc = "read_loop" /\ LoopCond(packet, packet_len)
  /\ LET pkt == OnTimedOut(packet)
     IN /\ packet' = pkt
        /\ packet_len' = LengthCheck(pkt, packet_len)
  /\ last' = "timeout"
  /\ UNCHANGED <<codecVars, outVars, noise, frame, stream, pos, op, expected_data_len,
                 pc, response, trail, result>>

\* the port returns another I/O error: read_message returns it; under
\* read_message_with_trailing_data the `?` returns it to the caller
ReadIoError ==
  /\ pc = "read_loop" /\ LoopCond(packet, packet_len)
  /\ response' = TransportError
  /\ result' = TransportError
  /\ pc' = "done"
  /\ last' = "error"
  /\ UNCHANGED <<codecVars, outVars, noise, frame, stream, pos, op, expected_data_len,
                 packet, packet_len, trail>>

\* An end of read_message that, on a checksum mismatch, drops the buffer and
\* goes back to hunting for the sync byte.
ReturnFromReadMessageResync ==
  /\ pc = "read_loop" /\ ~LoopCond(packet, packet_len)
  /\ IF ValidatePacketChecksum(packet) = OkUnit
     THEN /\ response' = ReadMessageReturn(packet)
          /\ IF op = "read_message"
             THEN result' = response' /\ pc' = "done"
             ELSE result' = result /\ pc' = "after_read"
          /\ UNCHANGED <<packet, packet_len>>
     ELSE /\ packet' = <<>> /\ packet_len' = 3
          /\ UNCHANGED <<response, result, pc>>
  /\ UNCHANGED <<codecVars, outVars, noise, frame, stream, pos, op,
                 expected_data_len, trail, last>>

\* the loop is left: settle delay, checksum validation, decode
ReturnFromReadMessage ==
  /\ pc = "read_loop" /\ ~LoopCond(packet, packet_len)
  /\ response' = ReadMessageReturn(packet)
  /\ IF op = "read_message"
     THEN result' = response' /\ pc' = "done"
     ELSE result' = result /\ pc' = "after_read"
  /\ UNCHANGED <<codecVars, outVars, noise, frame, stream, pos, op, expected_data_len,
                 packet, packet_len, trail, last>>

\* message.rs:105-111: `?` on read_message's result, then the type guard
TypeGuard ==
  /\ pc = "after_read"
  /\ IF response.kind # "Ok"
     THEN result' = response /\ pc' = "done"
     ELSE IF TypeGuardFails(response.msg)
     THEN result' = InvalidArgs /\ pc' = "done"
     ELSE result' = result /\ pc' = "bulk_loop"
  /\ UNCHANGED <<codecVars, outVars, noise, frame, stream, pos, op, expected_data_len,
                 packet, packet_len, response, trail, last>>

\* one iteration of the bulk loop in which the port returns Ok(n), n > 0
BulkRead ==
  /\ pc = "bulk_loop" /\ BulkCond(trail, expected_data_len)
  /\ \E n \in 1..Min(FLASH_BUFFER_SIZE, Len(stream) - pos) :
       /\ trail' = trail \o SubSeq(stream, pos + 1, pos + n)
       /\ pos' = pos + n
  /\ last' = "byte"
  /\ UNCHANGED <<codecVars, outVars, noise, frame, stream, op, expected_data_len, pc,
                 packet, packet_len, response, result>>

\* the port returns Ok(0): "Stalled packet" is logged
BulkZero ==
  /\ pc = "bulk_loop" /\ BulkCond(trail, expected_data_len)
  /\ last' = "zero"
  /\ UNCHANGED <<codecVars, outVars, noise, frame, stream, pos, op, expected_data_len,
                 pc, packet, packet_len, response, trail, result>>

\* the port returns Err(TimedOut)
BulkTimedOut ==
  /\ pc = "bulk_loop" /\ BulkCond(trail, expected_data_len)
  /\ last' = "timeout"
  /\ UNCHANGED <<codecVars, outVars, noise, frame, stream, pos, op, expected_data_len,
                 pc, packet, packet_len, response, trail, result>>

\* the port returns another I/O error
BulkIoError ==
  /\ pc = "bulk_loop" /\ BulkCond(trail, expected_data_len)
  /\ result' = TransportError
  /\ pc' = "done"
  /\ last' = "error"
  /\ UNCHANGED <<codecVars, outVars, noise, frame, stream, pos, op, expected_data_len,
                 packet, packet_len, response, trail>>

\* the bulk loop is left: Ok((response, packet))
BulkReturn ==
  /\ pc = "bulk_loop" /\ ~BulkCond(trail, expected_data_len)
  /\ result' = OkWithData(response.msg, trail)
  /\ pc' = "done"
  /\ UNCHANGED <<codecVars, outVars, noise, frame, stream, pos, op, expected_data_len,
                 packet, packet_len, response, trail, last>>

(***************************************************************************)
(* The line: what the serial port delivers                                 *)
(***************************************************************************)

\* longest run of bytes on the line before the device's frame
MaxNoise == 2

\* most bytes on the line after the device's frame
MaxTail == 3

\* largest expected_data_len a caller passes
MaxExpected == 2

\* noise is made of a non-sync byte and of the sync byte
NoiseBytes == {0, BES_SYNC}

\* type bytes devices send: the nine wire codes and a code of no type
TypeBytes == {AsU8(t) : t \in MessageTypes} \cup {0}

\* second header bytes: the FlashCommand subtypes 2 and 8, and another
\* value; a Sync frame may carry the sync byte there
NextBytes(type_byte) ==
  IF type_byte = 101 THEN {2, 8, 255}
  ELSE IF type_byte = 80 THEN {1, BES_SYNC}
  ELSE {1}

\* the i-th byte of a frame body or of what follows a frame
Filler(i) == (i * 37 + 7) % 256

\* a frame of n bytes with the given type and next byte; its checksum is
\* correct when bad = 0
MakeFrame(type_byte, next_byte, n, bad) ==
  LET body == [i \in 1..(n - 1) |->
                 IF i = 1 THEN BES_SYNC
                 ELSE IF i = 2 THEN type_byte
                 ELSE IF i = 3 THEN next_byte
                 ELSE Filler(i)]
  IN Append(body, (CalculateMessageChecksum(body) + bad) % 256)

\* the frame-length table of the protocol description, by type byte and the
\* byte that follows it
TableLength(type_byte, next_byte) ==
  CASE type_byte = 80 -> 8
    [] type_byte = 83 -> 6
    [] type_byte = 84 -> 6
    [] type_byte = 85 -> 6
    [] type_byte = 96 -> 11
    [] type_byte = 97 -> 6
    [] type_byte = 98 -> 8
    [] type_byte = 3 -> 6
    [] type_byte = 101 -> IF next_byte = 2 THEN 9 ELSE IF next_byte = 8 THEN 6 ELSE 22
    [] OTHER -> 3

\* a device frames its messages by the protocol's table; frames of the
\* length the reader resolves are on the line as well
FrameLengths(type_byte, next_byte) ==
  { TableLength(type_byte, next_byte),
    DecodeMessageLength(<<BES_SYNC, type_byte, next_byte>>) }

\* the frames a device sends, with correct and with wrong checksum
DeviceFrames ==
  UNION { UNION { { MakeFrame(tb, nb, n, bad) :
                      n \in FrameLengths(tb, nb), bad \in {0, 1} } :
                  nb \in NextBytes(tb) } :
          tb \in TypeBytes }

Tails == { [i \in 1..n |-> Filler(i + 30)] : n \in 0..MaxTail }

InitRead ==
  /\ CodecIdle
  /\ OutIdle
  /\ noise \in SeqsUpTo(NoiseBytes, MaxNoise)
  /\ frame \in DeviceFrames
  /\ \E t \in Tails : stream = noise \o frame \o t
  /\ pos = 0
  /\ \/ op = "read_message" /\ expected_data_len = 0
     \/ op = "read_message_with_trailing_data"
        /\ expected_data_len \in 0..MaxExpected
  /\ pc = "read_loop"
  /\ packet = <<>>
  /\ packet_len = 3
  /\ response = NoResult
  /\ trail = <<>>
  /\ result = NoResult
  /\ last = "none"

NextRead ==
  \/ ReadByte
  \/ ReadZero
  \/ ReadTimedOut
  \/ ReadIoError
  \/ ReturnFromReadMessage
  \/ TypeGuard
  \/ BulkRead
  \/ BulkZero
  \/ BulkTimedOut
  \/ BulkIoError
  \/ BulkReturn

SpecRead == InitRead /\ [][NextRead]_vars

\* read_message alone on a port that raises no I/O error other than TimedOut
InitReadFair == InitRead /\ op = "read_message"

NextReadFair ==
  \/ ReadByte
  \/ ReadZero
  \/ ReadTimedOut
  \/ ReturnFromReadMessage

\* a byte waiting in the port is delivered after finitely many stalls, and
\* the code after the loop runs once the loop has ended
SpecReadFair ==
  /\ InitReadFair
  /\ [][NextReadFair]_vars
  /\ WF_vars(ReadByte)
  /\ WF_vars(ReturnFromReadMessage)

(***************************************************************************)
(* Properties of the codec, the checksum and the length lookup             *)
(***************************************************************************)

\* the arithmetic sum of a byte sequence, without any truncation
RECURSIVE ByteSum(_)
ByteSum(s) == IF s = <<>> THEN 0 ELSE s[1] + ByteSum(Tail(s))

\* msg has a payload length that the table allows for its type
ValidPayloadLength(m) ==
  /\ m.type1 \in MessageTypes
  /\ Len(m.payload) >= 1
  /\ Len(m.payload) + 3 = TableLength(AsU8(m.type1), m.payload[1])

\* C1: a message with sync 0xBE and a payload length valid for its type, on
\* which set_checksum was called, is equal in all four fields to the message
\* decoded from its encoding.
C1_RoundTrip ==
  (/\ summed /\ msg.sync = BES_SYNC /\ ValidPayloadLength(msg)
   /\ wire = ToVec(msg) /\ orig = <<>> /\ decoded # NoMsg)
  => decoded = msg

\* C2: decode_message_length returns, for every 3-byte header, the total
\* frame length of the table (3 for a type byte outside the nine codes).
C2_LengthTable ==
  (Len(wire) = 3 /\ length # 0) => length = TableLength(wire[2], wire[3])

\* C5: decoding a buffer whose type byte is one of the nine wire codes gives
\* the message type that carries that code.
C5_TypeCovered ==
  (decoded # NoMsg /\ \E t \in MessageTypes : AsU8(t) = wire[2])
  => AsU8(decoded.type1) = wire[2]

\* C6: after set_checksum, the bytes of the encoded frame, checksum
\* included, sum to 0xFF modulo 256.
C6_ChecksumInvariant ==
  (summed /\ wire # <<>> /\ orig = <<>>) => ByteSum(wire) % 256 = 255

\* C6 witness: an encoded, checksummed frame whose byte sum wrapped past 8
\* bits and whose checksum replaced a different stale value
C6_Witness ==
  /\ summed /\ wire # <<>> /\ orig = <<>>
  /\ ByteSum(Pop(wire)) > 255
  /\ wire[Len(wire)] \notin {0, 237}

\* C7: a frame that validate_packet_checksum accepts is rejected once any
\* single bit of it is flipped, with BadChecksumError carrying the altered
\* frame, its last byte as got, and the checksum of all bytes but the last as
\* wanted.
C7_BitFlipRejected ==
  (/\ orig # <<>> /\ ValidatePacketChecksum(orig) = OkUnit
   /\ verdict # NoResult)
  => verdict = BadChecksumError(wire, wire[Len(wire)],
                                255 - (ByteSum(Pop(wire)) % 256))

\* C7 witness: the flipped bit was in the checksum byte and the frame was
\* rejected
C7_Witness ==
  /\ orig # <<>> /\ verdict # NoResult
  /\ wire[Len(wire)] # orig[Len(orig)]
  /\ verdict.kind = "BadChecksumError"

(***************************************************************************)
(* Properties of the readers                                               *)
(***************************************************************************)

\* the nine wire codes
TypeCodes == {AsU8(t) : t \in MessageTypes}

\* p is an initial segment of f
PrefixOf(p, f) == Len(p) <= Len(f) /\ p = SubSeq(f, 1, Len(p))

\* f starts with the sync byte, has the length the reader resolves from its
\* header, and carries a correct checksum
ValidFrame(f) ==
  /\ f[1] = BES_SYNC
  /\ Len(f) = DecodeMessageLength(SubSeq(f, 1, 3))
  /\ ValidatePacketChecksum(f) = OkUnit

\* read_message's buffer holds bytes of the device's frame only, and what it
\* returns is the message decoded from that frame
ReadsExactlyTheFrame ==
  /\ PrefixOf(packet, frame)
  /\ (pc = "read_loop" /\ packet # <<>>) => pos = Len(noise) + Len(packet)
  /\ response.kind \in {"Ok", "BadChecksumError"}
       => response = OkMessage(FromVec(frame))

C4_UnknownTypeStalls ==
  (Len(packet) = 3 /\ packet[2] \notin TypeCodes)
  => response.kind \notin {"Ok", "BadChecksumError"}

\* C4 amended: a buffer whose type byte is none of the nine codes ends at 3
\* bytes: the resolved length 3 leaves the loop, no further byte is
\* appended, and read_message returns the Message decoded from the 3 bytes
\* (type defaulted to Sync) when the third byte is the checksum of the first
\* two, and BadChecksum for the 3-byte buffer otherwise.
C4_UnknownTypeCompletes ==
  (Len(packet) >= 3 /\ packet[2] \notin TypeCodes)
  => /\ Len(packet) = 3
     /\ packet_len = 3
     /\ pc # "read_loop" =>
          response =
            IF packet[3] = 255 - ((packet[1] + packet[2]) % 256)
            THEN OkMessage(BesMessage(packet[1], "Sync", <<packet[2]>>, packet[3]))
            ELSE BadChecksumError(packet, packet[3],
                                  255 - ((packet[1] + packet[2]) % 256))

\* C4 witness: a Message was returned for a 3-byte buffer of unknown type
\* while the port still had bytes to deliver
C4_Witness ==
  /\ Len(packet) = 3 /\ packet[2] \notin TypeCodes
  /\ response.kind = "Ok"
  /\ pos < Len(stream)

\* C8: when the framed message read_message_with_trailing_data decodes is
\* not of type FlashRead, the function returns InvalidArgs, and the last
\* port read before that is the one that delivered the frame's last byte: no
\* bulk byte was read and what follows the frame is still in the port.
C8_TypeGuard ==
  /\ (/\ op = "read_message_with_trailing_data" /\ pc = "done"
      /\ response.kind = "Ok" /\ response.msg.type1 # "FlashRead")
     => result = InvalidArgs
  /\ result = InvalidArgs
     => /\ response.kind = "Ok" /\ response.msg.type1 # "FlashRead"
        /\ last = "byte"
        /\ trail = <<>>
        /\ pos >= Len(packet)
        /\ SubSeq(stream, pos - Len(packet) + 1, pos) = packet

\* C8 witness: InvalidArgs was returned with bytes left in the port and a
\* non-zero expected_data_len
C8_Witness ==
  /\ result = InvalidArgs
  /\ expected_data_len > 0
  /\ pos < Len(stream)

\* read_message's loop on the bytes s[i..], started from <<packet,
\* packet_len>> = st, when every port read returns one byte
RECURSIVE RunWithoutStalls(_, _, _)
RunWithoutStalls(s, i, st) ==
  IF i > Len(s) \/ ~LoopCond(st[1], st[2]) THEN st
  ELSE LET pkt == Accept(st[1], s[i])
       IN RunWithoutStalls(s, i + 1, <<pkt, LengthCheck(pkt, st[2])>>)

\* C9: whatever timeouts and zero-length reads are interleaved with the
\* bytes, the buffer and the expected length are those of the run without
\* stalls over the bytes consumed so far (so a stall changes neither), and
\* the Message or BadChecksum returned is the one of the run without stalls.
C9_TimeoutTolerance ==
  /\ pc = "read_loop"
     => <<packet, packet_len>> =
          RunWithoutStalls(SubSeq(stream, 1, pos), 1, <<<<>>, 3>>)
  /\ response.kind \in {"Ok", "BadChecksumError"}
     => /\ <<packet, packet_len>> = RunWithoutStalls(stream, 1, <<<<>>, 3>>)
        /\ response = ReadMessageReturn(RunWithoutStalls(stream, 1, <<<<>>, 3>>)[1])

\* C9 witness: a timeout in the middle of a frame body
C9_Witness ==
  /\ pc = "read_loop" /\ last = "timeout"
  /\ Len(packet) > 3 /\ Len(packet) < packet_len

\* C10: when read_message_with_trailing_data succeeds, the trailing bytes
\* it returns are exactly expected_data_len bytes long.
C10_ExactLength ==
  (op = "read_message_with_trailing_data" /\ result.kind = "Ok")
  => Len(result.data) = expected_data_len

(***************************************************************************)
(* Properties of calculate_message_checksum                                *)
(***************************************************************************)

\* the examples as listed: bytes and the checksum said to be computed
ListedExamples ==
  { << <<190, 80, 0, 3, 0, 0, 1>>, 237 >>,
    << <<190, 80, 0, 1>>, 239 >>,
    << <<190, 83, 0, 1, 0>>, 237 >>,
    << <<190, 101, 2, 1, 17>>, 200 >>,
    << <<190, 101, 3, 1, 18>>, 198 >> }

\* the same list with the second example as the test corpus has it
CorpusExamples ==
  (ListedExamples \ { << <<190, 80, 0, 1>>, 239 >> })
    \cup { << <<190, 80, 0, 1, 1>>, 239 >> }

\* the checksum returned for each of the examples is the one given, and for
\* each test vector it is the vector's last byte
ExamplesHold(examples) ==
  cks # <<>> =>
    /\ \A e \in examples : wire = e[1] => cks = <<e[2]>>
    /\ \A v \in TestMessages : wire = Pop(v) => cks = <<v[Len(v)]>>

\* C11 as stated: calculate_message_checksum returns 0xED, 0xEF, 0xED, 0xC8,
\* 0xC6 for the five listed byte sequences (the second being BE 50 00 01),
\* and the last byte of each test vector for the vector without it.
C11_ListedExamples == ExamplesHold(ListedExamples)

\* C11 amended: the same with the second example BE 50 00 01 01 -> 0xEF, the
\* five bytes that precede 0xEF in the test vector.
C11_CorpusExamples == ExamplesHold(CorpusExamples)

\* C11 witness: the checksum of the second test vector was computed
C11_Witness == cks = <<239>> /\ wire = <<190, 80, 0, 1, 1>>

\* C12: the accumulator stays within 0..0x1FE; at the top of each loop
\* iteration it is the sum of the bytes consumed, modulo 256 (truncating
\* after each addition is truncating once); the value returned is 0xFF minus
\* the sum of all bytes modulo 256, a byte.
C12_ChecksumArithmetic ==
  /\ acc \in 0..510
  /\ spc = "add" => acc = ByteSum(SubSeq(wire, 1, idx)) % 256
  /\ spc = "mask" =>
       acc = (ByteSum(SubSeq(wire, 1, idx)) % 256) + wire[idx + 1]
  /\ cks # <<>> =>
       /\ cks = <<255 - (ByteSum(wire) % 256)>>
       /\ cks[1] \in Byte

\* C12 witness: a checksum was returned for bytes whose sum is beyond 0x1FE
C12_Witness == cks # <<>> /\ ByteSum(wire) > 510

(***************************************************************************)
(* Error outcomes of the readers                                           *)
(***************************************************************************)

\* C13: a timeout or a zero-length read never ends a read function and
\* leaves its buffers alone; the first other I/O error ends it at once with
\* TransportError, whatever was accumulated, and TransportError has no other
\* cause; the only other errors are BadChecksum and InvalidArgs.
C13_ErrorOutcomes ==
  /\ [](/\ result.kind \in {"none", "Ok", "TransportError",
                            "BadChecksumError", "InvalidArgs"}
        /\ result = TransportError <=> last = "error"
        /\ result # NoResult => pc = "done")
  /\ [][/\ last' \in {"timeout", "zero"}
          => /\ result' = NoResult /\ pc' = pc
             /\ packet' = packet /\ packet_len' = packet_len
             /\ trail' = trail /\ pos' = pos
        /\ (last' = "error" /\ last # "error")
          => /\ result' = TransportError /\ pc' = "done"
             /\ packet' = packet /\ trail' = trail /\ pos' = pos]_vars

\* C13 witness: TransportError was returned over a partly accumulated frame
C13_Witness ==
  /\ result = TransportError
  /\ Len(packet) > 3 /\ Len(packet) < packet_len

\* the last byte of p is not the checksum of the bytes before it
ChecksumWrong(p) == p[Len(p)] # 255 - (ByteSum(Pop(p)) % 256)

\* C14: a completed buffer with a wrong checksum makes read_message return
\* BadChecksum with that buffer, its last byte and the computed checksum;
\* the port position is then at the buffer's last byte, whose read is the
\* latest port read, and nothing is read, dropped or skipped afterwards.
C14_NoResync ==
  /\ [](response.kind = "BadChecksumError"
        => /\ response = BadChecksumError(packet, packet[Len(packet)],
                                          255 - (ByteSum(Pop(packet)) % 256))
           /\ Len(packet) = packet_len
           /\ last = "byte"
           /\ pos >= Len(packet)
           /\ SubSeq(stream, pos - Len(packet) + 1, pos) = packet
           /\ trail = <<>>
           /\ pc \in {"after_read", "done"}
           /\ pc = "done" => result = response)
  /\ [][/\ (/\ pc = "read_loop" /\ ~LoopCond(packet, packet_len)
            /\ ChecksumWrong(packet))
          => /\ response'.kind = "BadChecksumError"
             /\ pos' = pos /\ packet' = packet /\ last' = last
        /\ response.kind = "BadChecksumError"
          => pos' = pos /\ packet' = packet /\ response' = response]_vars

\* C14 witness: BadChecksum was returned for a frame longer than its header
\* while the port still had bytes to deliver
C14_Witness ==
  /\ response.kind = "BadChecksumError"
  /\ Len(packet) > 3
  /\ pos < Len(stream)

(***************************************************************************)
(* Properties of send_message                                              *)
(***************************************************************************)

\* C15: the bytes the port takes from a successful send_message are sync,
\* type code, the payload bytes in order and the checksum field as stored
\* (recomputed by nobody), and send_message returns Ok; when write_all fails
\* send_message returns the error.
C15_SendAsStored ==
  /\ write_result = "Ok"
     => /\ port_out = <<msg.sync, AsU8(msg.type1)>> \o msg.payload
                        \o <<msg.checksum>>
        /\ send_result = OkUnit
  /\ write_result = "Err" => send_result = IoError
  /\ send_result # NoResult => write_result \in {"Ok", "Err"}

\* C15 witness: a message whose stored checksum is wrong was written with it
C15_Witness ==
  /\ write_result = "Ok"
  /\ msg.checksum # 255 - (ByteSum(<<msg.sync, AsU8(msg.type1)>> \o msg.payload) % 256)
  /\ port_out[Len(port_out)] = msg.checksum

(***************************************************************************)
(* Properties of the decoder's layout                                      *)
(***************************************************************************)

\* C16: for a buffer of n >= 3 bytes the decoded message has sync =
\* bytes[0], checksum = bytes[n-1] and payload = bytes[1 .. n-1], n - 2
\* bytes that start with the type byte; with a type byte that is none of the
\* nine codes the same holds and the type is Sync.
C16_DecodeLayout ==
  (decoded # NoMsg /\ Len(wire) >= 3)
  => /\ decoded.sync = wire[1]
     /\ decoded.checksum = wire[Len(wire)]
     /\ Len(decoded.payload) = Len(wire) - 2
     /\ \A i \in 1..(Len(wire) - 2) : decoded.payload[i] = wire[i + 1]
     /\ decoded.payload[1] = wire[2]
     /\ decoded.type1 \in MessageTypes
     /\ wire[2] \notin {AsU8(t) : t \in MessageTypes} => decoded.type1 = "Sync"

\* C16 witness: a buffer longer than a header, with a type byte that is no
\* wire code, was decoded
C16_Witness ==
  /\ decoded # NoMsg /\ Len(wire) > 3
  /\ wire[2] \notin {AsU8(t) : t \in MessageTypes}

(***************************************************************************)
(* Properties of validate_packet_checksum                                  *)
(***************************************************************************)

\* C17: validate_packet_checksum returns Ok exactly for the frames whose
\* bytes, checksum included, sum to 0xFF modulo 256, and BadChecksumError
\* for the others; it returns Ok for the encoded frame of every message on
\* which set_checksum was called.
C17_SumTest ==
  /\ verdict # NoResult
     => /\ verdict = OkUnit <=> ByteSum(wire) % 256 = 255
        /\ verdict # OkUnit => verdict.kind = "BadChecksumError"
  /\ (summed /\ wire # <<>> /\ orig = <<>> /\ verdict # NoResult)
     => verdict = OkUnit

\* C17 witness: a frame of one byte was accepted
C17_Witness == verdict = OkUnit /\ Len(wire) = 1

(***************************************************************************)
(* Invariant of read_message's loop                                        *)
(***************************************************************************)

\* C18: a non-empty buffer starts with 0xBE; the buffer is never longer
\* than the expected length; the expected length is 3 while the buffer holds
\* fewer than 3 bytes; it changes only in the step that brings the buffer to
\* 3 bytes, where it becomes the length looked up for those 3 bytes, and
\* never afterwards; once the buffer is non-empty every byte the port
\* delivers to the loop is appended, whatever its value.
C18_ReaderInvariant ==
  /\ [](/\ packet # <<>> => packet[1] = BES_SYNC
        /\ Len(packet) <= packet_len
        /\ Len(packet) < 3 => packet_len = 3)
  /\ [][/\ packet_len' # packet_len
          => Len(packet) = 2 /\ Len(packet') = 3 /\ packet_len = 3
        /\ (Len(packet) = 2 /\ Len(packet') = 3)
          => packet_len' = DecodeMessageLength(packet')
        /\ Len(packet) >= 3 => packet_len' = packet_len
        /\ (pc = "read_loop" /\ packet # <<>> /\ pos' = pos + 1)
          => packet' = Append(packet, stream[pos + 1])]_vars

\* C18 witness: the loop is inside a frame body whose third byte is 0xBE
C18_Witness ==
  /\ pc = "read_loop"
  /\ Len(packet) > 3 /\ Len(packet) < packet_len
  /\ packet[3] = BES_SYNC

(***************************************************************************)
(* Termination of read_message                                             *)
(***************************************************************************)

\* the stream holds a sync byte followed by at least 21 more bytes
SyncWithRoom ==
  \E i \in 1..Len(stream) : stream[i] = BES_SYNC /\ Len(stream) >= i + 21

\* this iteration delivers no byte, or a non-sync byte to an empty buffer
StallStep ==
  \/ last' \in {"timeout", "zero"} /\ pos' = pos
  \/ pos' = pos + 1 /\ packet = <<>> /\ stream[pos + 1] # BES_SYNC

\* C19: an iteration that brings a timeout, a zero-length read or a
\* non-sync byte to an empty buffer changes nothing in the buffer, leaves
\* the loop running and returns nothing, and read_message has returned
\* nothing while the buffer is empty; when bytes waiting in the port are
\* eventually delivered and the stream holds a 0xBE followed by at least 21
\* more bytes, read_message eventually returns a message or BadChecksum.
C19_Termination ==
  /\ [](packet = <<>> => pc = "read_loop" /\ response = NoResult)
  /\ [][(pc = "read_loop" /\ StallStep)
        => /\ packet' = packet /\ packet_len' = packet_len
           /\ LoopCond(packet', packet_len')
           /\ pc' = "read_loop"
           /\ response' = NoResult /\ result' = NoResult]_vars
  /\ (SyncWithRoom
        => <>(/\ pc = "done"
              /\ result = response
              /\ response.kind \in {"Ok", "BadChecksumError"}))

\* C19 witness: a 22-byte frame whose sync byte came after noise and had
\* exactly 21 bytes behind it was returned
C19_Witness ==
  /\ SyncWithRoom
  /\ noise # <<>> /\ Len(stream) = Len(noise) + 22
  /\ pc = "done"
  /\ response.kind \in {"Ok", "BadChecksumError"}
  /\ Len(packet) = 22 /\ pos = Len(stream)

====
